---- MODULE Spec2Model ----
(***************************************************************************)
(* Hybrid retrieval pipeline of services/query_service.py:                  *)
(* lazy BM25 index build, query rewriting, BM25 keyword search, Pinecone    *)
(* semantic search, Reciprocal Rank Fusion, cross-encoder re-ranking and    *)
(* final context selection, together with the Pinecone upsert of            *)
(* services/embedding_service.py that gives the dense vectors their ids.    *)
(*                                                                          *)
(* Strings are sequences of one-character strings.  Python floats are       *)
(* modelled as exact rationals: every RRF score is kept as an integer       *)
(* multiple of 1/Scale, where Scale is a common multiple of all the         *)
(* denominators 60+r+1 that can occur.  BM25 and relevance scores are       *)
(* outputs of third-party libraries and are drawn from small integer        *)
(* ranges (finite, comparable numbers).                                     *)
(***************************************************************************)
EXTENDS Integers, Sequences, FiniteSets, TLC

----------------------------------------------------------------------------
\* Bounds of the model.
MaxTopK == 3
MaxScore == 1
MaxRel == 1
MaxCalls == 3

\* Program constants.
K == 60
RerankMargin == 5
DefaultFinalK == 3

Threads == {1, 2}

----------------------------------------------------------------------------
\* Texts.
TA == <<"a">>
TB == <<"b">>
TC == <<"c">>
TD == <<"d">>
TE == <<"e">>

\* Contents of golden_dataset.json (the 'ground_truth_context' of each item):
\* none, three with a repeated text, three distinct.
CorpusFiles == { <<>>, <<TA, TA, TB>>, <<TA, TB, TC>> }

\* Section lists parsed from a document ('full_content' of each section).
SectionLists == { <<TB, TD>> }

Questions == { <<"A", " ", "b">>, <<"?">> }

\* Values of the top_k and final_k parameters.
TopKs == 0..MaxTopK
FinalKs == {1, DefaultFinalK}

\* The scenario of five chunks known to both searches.
FiveChunks == <<TA, TB, TC, TD, TE>>

\* Values of response.text of the generation model.
GenTexts == { <<" ", "a", " ", "b", " ", "c", " ">>, <<" ">> }

----------------------------------------------------------------------------
\* str.lower(), str.strip(), re.findall(r'\b\w+\b', ...), hash().
Alphabet == <<"a", "b", "c", "d", "e", "A", " ", "?">>

Code(c) == CHOOSE i \in 1..Len(Alphabet) : Alphabet[i] = c

LowerChar(c) == IF c = "A" THEN "a" ELSE c

Lower(text) == [i \in 1..Len(text) |-> LowerChar(text[i])]

IsWordChar(c) == c \in {"a", "b", "c", "d", "e", "A"}

IsSpace(c) == c = " "

RECURSIVE LStrip(_)
LStrip(text) ==
    IF text # <<>> /\ IsSpace(Head(text)) THEN LStrip(Tail(text)) ELSE text

RECURSIVE RStrip(_)
RStrip(text) ==
    IF text # <<>> /\ IsSpace(text[Len(text)])
    THEN RStrip(SubSeq(text, 1, Len(text) - 1))
    ELSE text

Strip(text) == RStrip(LStrip(text))

\* Maximal runs of word characters, left to right.
RECURSIVE FindWords(_, _, _)
FindWords(text, cur, acc) ==
    IF text = <<>>
    THEN IF cur = <<>> THEN acc ELSE Append(acc, cur)
    ELSE IF IsWordChar(Head(text))
         THEN FindWords(Tail(text), Append(cur, Head(text)), acc)
         ELSE FindWords(Tail(text), <<>>,
                        IF cur = <<>> THEN acc ELSE Append(acc, cur))

simple_tokenizer(text) == FindWords(Lower(text), <<>>, <<>>)

\* hash(str): deterministic within one process; a polynomial hash stands for it.
RECURSIVE HashFrom(_, _)
HashFrom(h, text) ==
    IF text = <<>> THEN h
    ELSE HashFrom((h * 31 + Code(Head(text))) % 1000003, Tail(text))

Hash(text) == HashFrom(7, text)

----------------------------------------------------------------------------
\* sorted(range(n), key=lambda i: key[i], reverse=True): a stable sort, so
\* elements with equal keys keep their original order.  Indices are 1-based.
RECURSIVE InsertDescUnstable(_, _, _)
InsertDescUnstable(s, x, key) ==
    IF s = <<>> THEN <<x>>
    ELSE IF key[Head(s)] > key[x]
         THEN <<Head(s)>> \o InsertDescUnstable(Tail(s), x, key)
         ELSE <<x>> \o s

RECURSIVE InsertDesc(_, _, _)
InsertDesc(s, x, key) ==
    IF s = <<>> THEN <<x>>
    ELSE IF key[Head(s)] >= key[x]
         THEN <<Head(s)>> \o InsertDesc(Tail(s), x, key)
         ELSE <<x>> \o s

RECURSIVE SortedDesc(_, _)
SortedDesc(n, key) ==
    IF n = 0 THEN <<>> ELSE InsertDesc(SortedDesc(n - 1, key), n, key)

\* seq[:n]
Take(seq, n) == SubSeq(seq, 1, IF n < Len(seq) THEN n ELSE Len(seq))

RECURSIVE SumSeq(_)
SumSeq(s) == IF s = <<>> THEN 0 ELSE Head(s) + SumSeq(Tail(s))

----------------------------------------------------------------------------
\* Exact arithmetic for 1 / (k + rank + 1): scores are multiples of 1/Scale.
RECURSIVE Product(_, _)
Product(lo, hi) == IF lo > hi THEN 1 ELSE lo * Product(lo + 1, hi)

Scale == Product(K + 1, K + MaxTopK)

RRFNoPlusOne(rank) == Scale \div (K + rank)

RRF(rank) == Scale \div (K + rank + 1)

----------------------------------------------------------------------------
\* State.
\*   file            contents of golden_dataset.json
\*   pinecone_store  vectors of the Pinecone index, in upsert order
\*   document_processed  process_and_embed_document has run
\*   bm25_index, corpus  the module-level globals of query_service.py
\*   build_count     executions of build_bm25_index_from_file begun so far
\*   frame           per caller: position in retrieve_and_rerank and its locals
\*   calls           per caller: retrieve_and_rerank calls begun so far
VARIABLES file, pinecone_store, document_processed, bm25_index, corpus,
          build_count, frame, calls

vars == <<file, pinecone_store, document_processed, bm25_index, corpus,
          build_count, frame, calls>>

\* bm25_index = None
None == [is_none |-> TRUE, tokenized_corpus |-> <<>>]

\* Locals of a caller that is not inside retrieve_and_rerank.
\* dense_attempts counts the embedding / Pinecone query attempts of the call;
\* prev holds the locals of the caller's previous call as they were when it
\* ended (empty before the first call has ended).
IdleFrame ==
    [pc |-> "idle", question |-> <<>>, top_k |-> 0, final_k |-> 0,
     gen_called |-> FALSE, gen_raised |-> FALSE, gen_text |-> <<>>,
     rewritten_question |-> <<>>, tokenized_query |-> <<>>,
     bm25_scores |-> <<>>, bm25_results |-> <<>>, bm25_hits |-> <<>>,
     embed_input |-> <<>>, pinecone_hits |-> <<>>,
     sorted_fused_results |-> <<>>, top_fused_hits |-> <<>>,
     rerank_pairs |-> <<>>, scores |-> <<>>, rerank_order |-> <<>>,
     reranked_results |-> <<>>, final_context |-> <<>>, err |-> "none",
     dense_attempts |-> 0, prev |-> <<>>]

InitWith(files) ==
    /\ file \in files
    /\ pinecone_store = <<>>
    /\ document_processed = FALSE
    /\ bm25_index = None
    /\ corpus = <<>>
    /\ build_count = 0
    /\ frame = [t \in Threads |-> IdleFrame]
    /\ calls = [t \in Threads |-> 0]

Init == InitWith(CorpusFiles)

----------------------------------------------------------------------------
\* upsert_dense_embeddings: one vector per section, id "dense_<position>".
vectors_to_upsert(sections) ==
    [i \in 1..Len(sections) |->
        [id |-> <<"dense", i - 1>>, full_content |-> sections[i]]]

\* process_and_embed_document: aborts when no section was parsed.
Upsert(sections) ==
    /\ ~document_processed
    /\ \A t \in Threads : calls[t] = 0
    /\ document_processed' = TRUE
    /\ pinecone_store' = IF sections = <<>> THEN pinecone_store
                         ELSE vectors_to_upsert(sections)
    /\ UNCHANGED <<file, bm25_index, corpus, build_count, frame, calls>>

----------------------------------------------------------------------------
\* retrieve_and_rerank(question, top_k, final_k) is entered.
Call(t, limit, questions, top_ks, final_ks) ==
    /\ frame[t].pc = "idle"
    /\ calls[t] < limit
    /\ \E q \in questions, tk \in top_ks, fk \in final_ks :
          frame' = [frame EXCEPT ![t] =
                       [IdleFrame EXCEPT !.pc = "check", !.question = q,
                                         !.top_k = tk, !.final_k = fk,
                                         !.prev = frame[t].prev]]
    /\ calls' = [calls EXCEPT ![t] = @ + 1]
    /\ UNCHANGED <<file, pinecone_store, document_processed, bm25_index,
                   corpus, build_count>>

needs_build_always(index) == TRUE

\* if bm25_index is None:
NeedsBuild(index) == index.is_none

Check(t) ==
    /\ frame[t].pc = "check"
    /\ frame' = [frame EXCEPT ![t].pc =
                    IF NeedsBuild(bm25_index) THEN "build_load" ELSE "rewrite"]
    /\ UNCHANGED <<file, pinecone_store, document_processed, bm25_index,
                   corpus, build_count, calls>>

\* build_bm25_index_from_file, first half: read the file, assign corpus.
BuildLoad(t) ==
    /\ frame[t].pc = "build_load"
    /\ build_count' = build_count + 1
    /\ corpus' = file
    /\ frame' = [frame EXCEPT ![t].pc = "build_index"]
    /\ UNCHANGED <<file, pinecone_store, document_processed, bm25_index, calls>>

\* BM25Okapi(tokenized_corpus): divides by the corpus size.
BM25Okapi(tokenized_corpus) ==
    [is_none |-> FALSE, tokenized_corpus |-> tokenized_corpus]

\* build_bm25_index_from_file, second half: tokenize, assign bm25_index.
BuildIndex(t) ==
    /\ frame[t].pc = "build_index"
    /\ LET tokenized_corpus ==
               [i \in 1..Len(corpus) |-> simple_tokenizer(corpus[i])]
       IN  IF Len(tokenized_corpus) = 0
           THEN /\ frame' = [frame EXCEPT ![t].pc = "failed",
                                          ![t].err = "ZeroDivisionError"]
                /\ UNCHANGED bm25_index
           ELSE /\ bm25_index' = BM25Okapi(tokenized_corpus)
                /\ frame' = [frame EXCEPT ![t].pc = "rewrite"]
    /\ UNCHANGED <<file, pinecone_store, document_processed, corpus,
                   build_count, calls>>

----------------------------------------------------------------------------
\* Outcomes of generation_model.generate_content(prompt) / response.text.
GenOutcomes ==
    {[raised |-> TRUE, text |-> <<>>]}
        \cup {[raised |-> FALSE, text |-> x] : x \in GenTexts}

rewrite_query_no_except(question, outcome) ==
    IF outcome.raised
    THEN [raised |-> TRUE, value |-> <<>>]
    ELSE [raised |-> FALSE, value |-> Strip(outcome.text)]

\* rewrite_query: the stripped response text, or the question when the
\* call raised.
rewrite_query(question, outcome) ==
    IF outcome.raised
    THEN [raised |-> FALSE, value |-> question]
    ELSE [raised |-> FALSE, value |-> Strip(outcome.text)]

Rewrite(t, outcomes) ==
    /\ frame[t].pc = "rewrite"
    /\ \E o \in outcomes :
          LET r == rewrite_query(frame[t].question, o)
          IN  frame' = [frame EXCEPT
                  ![t].gen_called = TRUE,
                  ![t].gen_raised = o.raised,
                  ![t].gen_text = o.text,
                  ![t].rewritten_question = r.value,
                  ![t].pc = IF r.raised THEN "failed" ELSE "lexical",
                  ![t].err = IF r.raised THEN "GenerationError" ELSE "none"]
    /\ UNCHANGED <<file, pinecone_store, document_processed, bm25_index,
                   corpus, build_count, calls>>

----------------------------------------------------------------------------
\* 1. Keyword search (BM25).

\* Whether a document holds a term of the query.
Matches(doc_tokens, query_tokens) ==
    \E i \in 1..Len(doc_tokens), j \in 1..Len(query_tokens) :
        doc_tokens[i] = query_tokens[j]

\* bm25_index.get_scores(tokenized_query): one score per document of the
\* index; a document that holds no term of the query scores 0 (so every
\* score is 0 for an empty query).  The other scores are the library's.
get_scores(index, tokenized_query) ==
    LET n == Len(index.tokenized_corpus)
    IN  { s \in [1..n -> 0..MaxScore] :
            \A i \in 1..n :
                ~Matches(index.tokenized_corpus[i], tokenized_query)
                    => s[i] = 0 }

\* sorted(range(len(bm25_scores)), key=..., reverse=True)[:top_k]
bm25_top(bm25_scores, top_k) ==
    Take(SortedDesc(Len(bm25_scores), bm25_scores), top_k)

Lexical(t) ==
    /\ frame[t].pc = "lexical"
    /\ LET tokenized_query == simple_tokenizer(frame[t].rewritten_question)
       IN  \E bm25_scores \in get_scores(bm25_index, tokenized_query) :
             LET bm25_results == bm25_top(bm25_scores, frame[t].top_k)
                 bm25_hits ==
                     [r \in 1..Len(bm25_results) |->
                         [id |-> <<"bm25", bm25_results[r] - 1>>,
                          score |-> bm25_scores[bm25_results[r]],
                          full_content |-> corpus[bm25_results[r]]]]
             IN  frame' = [frame EXCEPT
                     ![t].tokenized_query = tokenized_query,
                     ![t].bm25_scores = bm25_scores,
                     ![t].bm25_results = bm25_results,
                     ![t].bm25_hits = bm25_hits,
                     ![t].pc = "dense"]
    /\ UNCHANGED <<file, pinecone_store, document_processed, bm25_index,
                   corpus, build_count, calls>>

----------------------------------------------------------------------------
\* 2. Semantic search (Pinecone).

Min(a, b) == IF a < b THEN a ELSE b

\* pinecone_index.query(...).get('matches', []): at most top_k vectors of
\* the index, each at most once, in the order the service ranks them.
query_matches(store, top_k) ==
    LET n == Len(store)
        picks == UNION { [1..m -> 1..n] : m \in 0..Min(top_k, n) }
    IN  { [r \in 1..Len(p) |-> store[p[r]]] :
            p \in { q \in picks :
                      \A i, j \in 1..Len(q) : i # j => q[i] # q[j] } }

\* The same, for a service that ranks the vectors in upsert order or in
\* the reverse of it.
RECURSIVE Reverse(_)
Reverse(seq) ==
    IF seq = <<>> THEN <<>> ELSE Append(Reverse(Tail(seq)), Head(seq))

ordered_matches(store, top_k) ==
    { Take(store, m) : m \in 0..Min(top_k, Len(store)) }
        \cup { Take(Reverse(store), m) : m \in 0..Min(top_k, Len(store)) }

Dense(t, matches) ==
    /\ frame[t].pc = "dense"
    /\ \E pinecone_hits \in matches :
          frame' = [frame EXCEPT
              ![t].embed_input = frame[t].rewritten_question,
              ![t].dense_attempts = @ + 1,
              ![t].pinecone_hits = pinecone_hits,
              ![t].pc = "fuse"]
    /\ UNCHANGED <<file, pinecone_store, document_processed, bm25_index,
                   corpus, build_count, calls>>

\* embedding_model.encode or pinecone_index.query raises: nothing catches it.
DenseRaises(t) ==
    /\ frame[t].pc = "dense"
    /\ frame' = [frame EXCEPT
          ![t].embed_input = frame[t].rewritten_question,
          ![t].dense_attempts = @ + 1,
          ![t].pc = "failed",
          ![t].err = "RetrievalServiceError"]
    /\ UNCHANGED <<file, pinecone_store, document_processed, bm25_index,
                   corpus, build_count, calls>>

----------------------------------------------------------------------------
\* 3. Reciprocal Rank Fusion.

\* doc_id = f"content_{hash(doc_content)}"
content_id(doc_content) == <<"content", Hash(doc_content)>>

HasId(fused_results, doc_id) ==
    \E i \in 1..Len(fused_results) : fused_results[i].id = doc_id

\* if doc_id not in fused_results: fused_results[doc_id] = {score: 0, ...}
\* fused_results[doc_id]['score'] += 1 / (k + rank + 1)
\* The dict is a sequence of entries in insertion order.
add_hit(fused_results, doc_id, full_content, rank) ==
    LET entries ==
            IF HasId(fused_results, doc_id) THEN fused_results
            ELSE Append(fused_results,
                        [id |-> doc_id, score |-> 0,
                         full_content |-> full_content])
    IN  [i \in 1..Len(entries) |->
            IF entries[i].id = doc_id
            THEN [entries[i] EXCEPT !.score = @ + RRF(rank)]
            ELSE entries[i]]

\* for rank, hit in enumerate(pinecone_hits): doc_id = hit['id']
RECURSIVE fuse_pinecone(_, _, _)
fuse_pinecone(fused_results, pinecone_hits, rank) ==
    IF rank >= Len(pinecone_hits) THEN fused_results
    ELSE fuse_pinecone(
             add_hit(fused_results, pinecone_hits[rank + 1].id,
                     pinecone_hits[rank + 1].full_content, rank),
             pinecone_hits, rank + 1)

\* for rank, hit in enumerate(bm25_hits): doc_id from the content hash
RECURSIVE fuse_bm25(_, _, _)
fuse_bm25(fused_results, bm25_hits, rank) ==
    IF rank >= Len(bm25_hits) THEN fused_results
    ELSE fuse_bm25(
             add_hit(fused_results,
                     content_id(bm25_hits[rank + 1].full_content),
                     bm25_hits[rank + 1].full_content, rank),
             bm25_hits, rank + 1)

\* sorted(fused_results.values(), key=lambda x: x['score'], reverse=True)
sorted_by_score(entries) ==
    LET order == SortedDesc(Len(entries),
                            [i \in 1..Len(entries) |-> entries[i].score])
    IN  [i \in 1..Len(entries) |-> entries[order[i]]]

\* As fuse, with fused_results kept from the caller's previous call.
fuse_accumulating(bm25_hits, pinecone_hits) ==
    LET kept == IF frame[1].prev = <<>> THEN <<>>
                ELSE frame[1].prev[1].sorted_fused_results
    IN  sorted_by_score(
            fuse_bm25(fuse_pinecone(kept, pinecone_hits, 0), bm25_hits, 0))

fuse(bm25_hits, pinecone_hits) ==
    sorted_by_score(
        fuse_bm25(fuse_pinecone(<<>>, pinecone_hits, 0), bm25_hits, 0))

Fuse(t) ==
    /\ frame[t].pc = "fuse"
    /\ frame' = [frame EXCEPT
          ![t].sorted_fused_results =
              fuse(frame[t].bm25_hits, frame[t].pinecone_hits),
          ![t].pc = "rerank"]
    /\ UNCHANGED <<file, pinecone_store, document_processed, bm25_index,
                   corpus, build_count, calls>>

----------------------------------------------------------------------------
\* 4. Re-rank the top fused results.

rerank_pool_untruncated(sorted_fused_results, top_k) ==
    [i \in 1..Len(sorted_fused_results) |->
        sorted_fused_results[i].full_content]

\* [item['metadata']['full_content']
\*     for item in sorted_fused_results[:rerank_pool_size]]
rerank_pool(sorted_fused_results, top_k) ==
    LET pool == Take(sorted_fused_results, top_k + RerankMargin)
    IN  [i \in 1..Len(pool) |-> pool[i].full_content]

rerank_sorted_ascending(scores) ==
    SortedDesc(Len(scores), [i \in 1..Len(scores) |-> 0 - scores[i]])

\* sorted(zip(top_fused_hits, scores), key=lambda x: x[1], reverse=True),
\* as the order in which the positions of the pool come out.
rerank_sorted(scores) == SortedDesc(Len(scores), scores)

\* rerank_model.predict(rerank_pairs): one score per pair, in the order of
\* the pairs; the model scores a pair by its texts, so two pairs with the
\* same content get the same score.
predict(top_fused_hits) ==
    LET n == Len(top_fused_hits)
        contents == { top_fused_hits[i] : i \in 1..n }
    IN  { [i \in 1..n |-> rel[top_fused_hits[i]]] :
            rel \in [contents -> 0..MaxRel] }

make_pairs_rewritten(call, top_fused_hits) ==
    [i \in 1..Len(top_fused_hits) |->
        <<call.rewritten_question, top_fused_hits[i]>>]

\* rerank_pairs = [[question, content] for content in top_fused_hits],
\* in the call whose locals are call.
make_pairs(call, top_fused_hits) ==
    [i \in 1..Len(top_fused_hits) |-> <<call.question, top_fused_hits[i]>>]

\* The pool is empty: return [] before the relevance model is called.
RerankEmpty(t) ==
    /\ frame[t].pc = "rerank"
    /\ rerank_pool(frame[t].sorted_fused_results, frame[t].top_k) = <<>>
    /\ frame' = [frame EXCEPT ![t].final_context = <<>>, ![t].pc = "done"]
    /\ UNCHANGED <<file, pinecone_store, document_processed, bm25_index,
                   corpus, build_count, calls>>

Rerank(t) ==
    /\ frame[t].pc = "rerank"
    /\ LET top_fused_hits ==
               rerank_pool(frame[t].sorted_fused_results, frame[t].top_k)
           n == Len(top_fused_hits)
       IN  /\ top_fused_hits # <<>>
           /\ \E scores \in predict(top_fused_hits) :
                 LET order == rerank_sorted(scores)
                 IN  frame' = [frame EXCEPT
                         ![t].top_fused_hits = top_fused_hits,
                         ![t].rerank_pairs =
                             make_pairs(frame[t], top_fused_hits),
                         ![t].scores = scores,
                         ![t].rerank_order = order,
                         ![t].reranked_results =
                             [i \in 1..n |->
                                 <<top_fused_hits[order[i]],
                                   scores[order[i]]>>],
                         ![t].pc = "select"]
    /\ UNCHANGED <<file, pinecone_store, document_processed, bm25_index,
                   corpus, build_count, calls>>

\* rerank_model.predict raises: nothing catches it.
RerankRaises(t) ==
    /\ frame[t].pc = "rerank"
    /\ LET top_fused_hits ==
               rerank_pool(frame[t].sorted_fused_results, frame[t].top_k)
       IN  /\ top_fused_hits # <<>>
           /\ frame' = [frame EXCEPT
                 ![t].top_fused_hits = top_fused_hits,
                 ![t].rerank_pairs = make_pairs(frame[t], top_fused_hits),
                 ![t].pc = "failed",
                 ![t].err = "RerankServiceError"]
    /\ UNCHANGED <<file, pinecone_store, document_processed, bm25_index,
                   corpus, build_count, calls>>

select_one_more(reranked_results, final_k) ==
    LET kept == Take(reranked_results, final_k + 1)
    IN  [i \in 1..Len(kept) |-> kept[i][1]]

\* [content for content, score in reranked_results[:final_k]]
select(reranked_results, final_k) ==
    LET kept == Take(reranked_results, final_k)
    IN  [i \in 1..Len(kept) |-> kept[i][1]]

Select(t) ==
    /\ frame[t].pc = "select"
    /\ frame' = [frame EXCEPT
          ![t].final_context =
              select(frame[t].reranked_results, frame[t].final_k),
          ![t].pc = "done"]
    /\ UNCHANGED <<file, pinecone_store, document_processed, bm25_index,
                   corpus, build_count, calls>>

\* The call has returned or raised; the caller may call again.
Return(t) ==
    /\ frame[t].pc \in {"done", "failed"}
    /\ calls[t] < MaxCalls
    /\ frame' = [frame EXCEPT ![t] =
                    [IdleFrame EXCEPT
                        !.prev = <<[frame[t] EXCEPT !.prev = <<>>]>>]]
    /\ UNCHANGED <<file, pinecone_store, document_processed, bm25_index,
                   corpus, build_count, calls>>

----------------------------------------------------------------------------
\* One caller, one call, every input of the bounded sets.
Next ==
    \/ \E sections \in SectionLists : Upsert(sections)
    \/ Call(1, 1, Questions, TopKs, FinalKs)
    \/ Check(1)
    \/ BuildLoad(1)
    \/ BuildIndex(1)
    \/ Rewrite(1, GenOutcomes)
    \/ Lexical(1)
    \/ Dense(1, query_matches(pinecone_store, frame[1].top_k))
    \/ DenseRaises(1)
    \/ Fuse(1)
    \/ RerankEmpty(1)
    \/ Rerank(1)
    \/ RerankRaises(1)
    \/ Select(1)

Spec == Init /\ [][Next]_vars

\* The scenario: five chunks in the corpus file and in the index, one
\* question, top_k = 3.
InitScenario == InitWith({FiveChunks})

NextScenario ==
    \/ Upsert(FiveChunks)
    \/ Call(1, 1, {<<"A", " ", "b">>}, {3}, {DefaultFinalK})
    \/ Check(1)
    \/ BuildLoad(1)
    \/ BuildIndex(1)
    \/ Rewrite(1, GenOutcomes)
    \/ Lexical(1)
    \/ Dense(1, query_matches(pinecone_store, frame[1].top_k))
    \/ DenseRaises(1)
    \/ Fuse(1)
    \/ Rerank(1)
    \/ RerankRaises(1)
    \/ Select(1)

SpecScenario == InitScenario /\ [][NextScenario]_vars

\* Several callers whose calls interleave statement by statement, each
\* calling up to MaxCalls times; the generation call is down and the
\* Pinecone index is empty.
InitConc == InitWith({<<TA, TB, TC>>})

NextConc ==
    \E t \in Threads :
        \/ Call(t, MaxCalls, {<<"?">>}, {1}, {DefaultFinalK})
        \/ Check(t)
        \/ BuildLoad(t)
        \/ BuildIndex(t)
        \/ Rewrite(t, {[raised |-> TRUE, text |-> <<>>]})
        \/ Lexical(t)
        \/ Dense(t, query_matches(pinecone_store, frame[t].top_k))
        \/ DenseRaises(t)
        \/ Fuse(t)
        \/ Rerank(t)
        \/ RerankRaises(t)
        \/ Select(t)
        \/ Return(t)

SpecConc == InitConc /\ [][NextConc]_vars

\* One caller whose calls follow one another, up to MaxCalls of them, with
\* top_k = 1; the corpus file is empty or holds three texts.
InitSeq == InitWith({<<>>, <<TA, TB, TC>>})

NextSeq ==
    \/ \E sections \in SectionLists : Upsert(sections)
    \/ Call(1, MaxCalls, Questions, {1}, {DefaultFinalK})
    \/ Check(1)
    \/ BuildLoad(1)
    \/ BuildIndex(1)
    \/ Rewrite(1, {[raised |-> TRUE, text |-> <<>>],
                   [raised |-> FALSE, text |-> <<" ">>]})
    \/ Lexical(1)
    \/ Dense(1, query_matches(pinecone_store, frame[1].top_k))
    \/ DenseRaises(1)
    \/ Fuse(1)
    \/ Rerank(1)
    \/ RerankRaises(1)
    \/ Select(1)
    \/ Return(1)

SpecSeq == InitSeq /\ [][NextSeq]_vars

\* Six texts in the corpus file and six sections in the index, top_k = 0 or
\* 6, so that fusion can yield more candidates than the rerank pool takes;
\* the index ranks its vectors in upsert order or the reverse.  Every
\* candidate here holds one contribution, and the quotients Scale \div (60+r+1)
\* for r < 6 are ordered as the exact values 1/(60+r+1) are.
TAB == <<"a", "b">>

SixChunks == <<TA, TB, TC, TD, TE, TAB>>

InitPool == InitWith({SixChunks})

NextPool ==
    \/ Upsert(SixChunks)
    \/ Call(1, 1, Questions, {0, 6}, FinalKs)
    \/ Check(1)
    \/ BuildLoad(1)
    \/ BuildIndex(1)
    \/ Rewrite(1, {[raised |-> TRUE, text |-> <<>>]})
    \/ Lexical(1)
    \/ Dense(1, ordered_matches(pinecone_store, frame[1].top_k))
    \/ DenseRaises(1)
    \/ Fuse(1)
    \/ RerankEmpty(1)
    \/ Rerank(1)
    \/ RerankRaises(1)
    \/ Select(1)

SpecPool == InitPool /\ [][NextPool]_vars

----------------------------------------------------------------------------
\* How far a call has come.
LexicalDone(t) ==
    \/ frame[t].pc \in {"dense", "fuse", "rerank", "select", "done"}
    \/ /\ frame[t].pc = "failed"
       /\ frame[t].err \in {"RetrievalServiceError", "RerankServiceError"}

DenseIssued(t) ==
    \/ frame[t].pc \in {"fuse", "rerank", "select", "done"}
    \/ /\ frame[t].pc = "failed"
       /\ frame[t].err \in {"RetrievalServiceError", "RerankServiceError"}

FuseDone(t) ==
    \/ frame[t].pc \in {"rerank", "select", "done"}
    \/ frame[t].pc = "failed" /\ frame[t].err = "RerankServiceError"

Contents(hits) == [i \in 1..Len(hits) |-> hits[i].full_content]

Occurrences(seq, x) == Cardinality({i \in 1..Len(seq) : seq[i] = x})

\* 1/(60 + r + 1) for the hit at 1-based position pos (r = pos - 1).
Contribution(pos) == Scale \div (60 + (pos - 1) + 1)

----------------------------------------------------------------------------
\* C1: after fusion, every chunk (text) that is in the BM25 list or in the
\* Pinecone list has exactly one fused candidate and no other candidate
\* exists; a chunk that is once in each list, at BM25 position r1 and
\* Pinecone position r2, has the fused score 1/(60+r1+1) + 1/(60+r2+1).
C1_OneCandidatePerChunk ==
    \A t \in Threads :
        FuseDone(t) =>
            LET f == Contents(frame[t].sorted_fused_results)
                b == Contents(frame[t].bm25_hits)
                p == Contents(frame[t].pinecone_hits)
                chunks == {b[i] : i \in 1..Len(b)} \cup {p[i] : i \in 1..Len(p)}
            IN  /\ \A c \in chunks : Occurrences(f, c) = 1
                /\ \A i \in 1..Len(f) : f[i] \in chunks
                /\ \A r1 \in 1..Len(b), r2 \in 1..Len(p) :
                       (/\ b[r1] = p[r2]
                        /\ Occurrences(b, b[r1]) = 1
                        /\ Occurrences(p, p[r2]) = 1)
                       => \E i \in 1..Len(f) :
                             /\ f[i] = b[r1]
                             /\ frame[t].sorted_fused_results[i].score
                                    = Contribution(r1) + Contribution(r2)

\* C2: in the scenario (corpus of five chunks, BM25 list [A,B,C], Pinecone
\* list [B,D,A]) the fused list is B, A, D, C with the scores
\* 1/61+1/62, 1/61+1/63, 1/62, 1/63.
C2_ScenarioFusedOrder ==
    \A t \in Threads :
        (/\ FuseDone(t)
         /\ corpus = FiveChunks
         /\ Contents(frame[t].bm25_hits) = <<TA, TB, TC>>
         /\ Contents(frame[t].pinecone_hits) = <<TB, TD, TA>>)
        => /\ Contents(frame[t].sorted_fused_results) = <<TB, TA, TD, TC>>
           /\ [i \in 1..Len(frame[t].sorted_fused_results) |->
                  frame[t].sorted_fused_results[i].score]
                  = << Scale \div 61 + Scale \div 62,
                       Scale \div 61 + Scale \div 63,
                       Scale \div 62,
                       Scale \div 63 >>

\* The fused candidate a hit was added to: the candidate with the hit's id
\* for a Pinecone hit, the content-keyed candidate with the hit's text for
\* a BM25 hit.
FromPinecone(cand, hit) == cand.id = hit.id

FromBM25(cand, hit) ==
    cand.id[1] = "content" /\ cand.full_content = hit.full_content

\* C3: every hit at 0-based position r of either list adds 1/(60+r+1) to
\* exactly one fused candidate, a candidate's fused score is the sum of
\* what was added to it, and the fused list is in non-increasing score order.
C3_RRFContributions ==
    \A t \in Threads :
        FuseDone(t) =>
            LET f == frame[t].sorted_fused_results
                b == frame[t].bm25_hits
                p == frame[t].pinecone_hits
            IN  /\ \A r \in 1..Len(p) :
                       Cardinality({i \in 1..Len(f) : FromPinecone(f[i], p[r])}) = 1
                /\ \A r \in 1..Len(b) :
                       Cardinality({i \in 1..Len(f) : FromBM25(f[i], b[r])}) = 1
                /\ \A i \in 1..Len(f) :
                       f[i].score =
                           SumSeq([r \in 1..Len(p) |->
                                      IF FromPinecone(f[i], p[r])
                                      THEN Contribution(r) ELSE 0])
                         + SumSeq([r \in 1..Len(b) |->
                                      IF FromBM25(f[i], b[r])
                                      THEN Contribution(r) ELSE 0])
                /\ \A i, j \in 1..Len(f) : i < j => f[i].score >= f[j].score

\* Fusion has run on two Pinecone matches, not in upsert order, and three
\* BM25 hits, one of them added to a candidate that already held another.
C3_Witness ==
    /\ frame[1].pc = "rerank"
    /\ Len(frame[1].pinecone_hits) = 2
    /\ Len(frame[1].bm25_hits) = 3
    /\ frame[1].pinecone_hits[1].id[2] > frame[1].pinecone_hits[2].id[2]
    /\ Len(frame[1].sorted_fused_results) = 4

\* C4: with no Pinecone match and three BM25 hits the fused list has three
\* candidates, the BM25 hits in rank order, scored 1/61, 1/62, 1/63.
C4_LexicalOnlyThree ==
    \A t \in Threads :
        (/\ FuseDone(t)
         /\ Len(frame[t].pinecone_hits) = 0
         /\ Len(frame[t].bm25_hits) = 3)
        => /\ Len(frame[t].sorted_fused_results) = 3
           /\ \A i \in 1..3 :
                  /\ frame[t].sorted_fused_results[i].full_content
                         = frame[t].bm25_hits[i].full_content
                  /\ frame[t].sorted_fused_results[i].score = Contribution(i)

\* C5: build_bm25_index_from_file is executed at most once per process.
C5_AtMostOneBuild == build_count <= 1

\* C6: a query without terms gives an empty BM25 hit list.
C6_EmptyQueryNoHits ==
    \A t \in Threads :
        (LexicalDone(t) /\ frame[t].tokenized_query = <<>>)
            => frame[t].bm25_hits = <<>>

\* C7: when the generation call raised, rewrite_query returned the question
\* unchanged, the call did not fail because of it, and the BM25 query and
\* the embedded text are those of the original question.
C7_RewriteFailureFallsBack ==
    \A t \in Threads :
        (frame[t].gen_called /\ frame[t].gen_raised) =>
            /\ frame[t].rewritten_question = frame[t].question
            /\ frame[t].pc # "rewrite"
            /\ frame[t].err # "GenerationError"
            /\ frame[t].pc = "failed" =>
                   frame[t].err \in {"RetrievalServiceError", "RerankServiceError"}
            /\ LexicalDone(t) =>
                   frame[t].tokenized_query = simple_tokenizer(frame[t].question)
            /\ DenseIssued(t) => frame[t].embed_input = frame[t].question

\* The generation call raised and the call returned a context.
C7_Witness ==
    /\ frame[1].pc = "done"
    /\ frame[1].gen_raised
    /\ frame[1].final_context # <<>>
    /\ frame[1].pinecone_hits # <<>>
    /\ frame[1].tokenized_query # <<>>

\* C8: when the generation call returned a text that is empty or only
\* whitespace, rewrite_query returned the original question.
C8_EmptyRewriteFallsBack ==
    \A t \in Threads :
        (/\ frame[t].gen_called
         /\ ~frame[t].gen_raised
         /\ \A i \in 1..Len(frame[t].gen_text) : frame[t].gen_text[i] = " ")
        => frame[t].rewritten_question = frame[t].question

\* 0-based corpus position of a BM25 hit, from its id 'bm25_<i>'.
CorpusPos(hit) == hit.id[2]

\* C9: the BM25 hit list has at most top_k hits, in non-increasing score
\* order with equal scores in corpus order, and no document left out scores
\* strictly higher than a hit.
C9_LexicalTopK ==
    \A t \in Threads :
        LexicalDone(t) =>
            LET h == frame[t].bm25_hits
                s == frame[t].bm25_scores
                included == {CorpusPos(h[i]) + 1 : i \in 1..Len(h)}
            IN  /\ Len(h) <= frame[t].top_k
                /\ \A i \in 1..Len(h) :
                       /\ CorpusPos(h[i]) + 1 \in 1..Len(s)
                       /\ h[i].score = s[CorpusPos(h[i]) + 1]
                       /\ h[i].full_content = corpus[CorpusPos(h[i]) + 1]
                /\ \A i, j \in 1..Len(h) :
                       i < j =>
                           \/ h[i].score > h[j].score
                           \/ /\ h[i].score = h[j].score
                              /\ CorpusPos(h[i]) < CorpusPos(h[j])
                /\ \A d \in (1..Len(s)) \ included :
                       \A i \in 1..Len(h) : s[d] <= h[i].score

\* Two hits with equal score were kept and a document with the same score
\* was left out.
C9_Witness ==
    /\ frame[1].pc = "dense"
    /\ frame[1].top_k = 2
    /\ Len(frame[1].bm25_hits) = 2
    /\ frame[1].bm25_scores = <<1, 1, 1>>

\* C10: the reranked list is a permutation of the pool (zipped with its
\* scores), in non-increasing relevance order, equal scores in fusion order.
C10_RerankPermutation ==
    \A t \in Threads :
        frame[t].pc \in {"select", "done"} =>
            LET pool == frame[t].top_fused_hits
                sc == frame[t].scores
                rr == frame[t].reranked_results
                ord == frame[t].rerank_order
                n == Len(pool)
                zipped == [i \in 1..n |-> <<pool[i], sc[i]>>]
            IN  /\ Len(rr) = n
                /\ Len(sc) = n
                /\ \A i \in 1..n : Occurrences(rr, rr[i]) = Occurrences(zipped, rr[i])
                /\ \A i \in 1..n : Occurrences(rr, zipped[i]) = Occurrences(zipped, zipped[i])
                /\ {ord[i] : i \in 1..Len(ord)} = 1..n
                /\ Len(ord) = n
                /\ \A i \in 1..n : rr[i] = zipped[ord[i]]
                /\ \A i, j \in 1..n :
                       i < j =>
                           \/ rr[i][2] > rr[j][2]
                           \/ rr[i][2] = rr[j][2] /\ ord[i] < ord[j]

\* A pool of at least four candidates was reranked, some moved up and two
\* of different text tied.
C10_Witness ==
    /\ frame[1].pc = "select"
    /\ Len(frame[1].top_fused_hits) >= 4
    /\ frame[1].rerank_order[1] > 1
    /\ \E i, j \in 1..Len(frame[1].reranked_results) :
           /\ i < j
           /\ frame[1].reranked_results[i][2] = frame[1].reranked_results[j][2]
           /\ frame[1].reranked_results[i][1] # frame[1].reranked_results[j][1]

----------------------------------------------------------------------------
\* The call before the current one of caller t, and whether the two got the
\* same arguments and the same answers from the generation model, the BM25
\* library, Pinecone and the relevance model.
Prev(t) == frame[t].prev[1]

SameInputs(t) ==
    /\ frame[t].question = Prev(t).question
    /\ frame[t].top_k = Prev(t).top_k
    /\ frame[t].final_k = Prev(t).final_k
    /\ frame[t].gen_raised = Prev(t).gen_raised
    /\ frame[t].gen_text = Prev(t).gen_text
    /\ frame[t].bm25_scores = Prev(t).bm25_scores
    /\ frame[t].pinecone_hits = Prev(t).pinecone_hits
    /\ frame[t].scores = Prev(t).scores

\* C11: two successive calls with the same question that got the same
\* answers from every service return the same ordered list, whichever of
\* them built the index.
C11_Idempotent ==
    \A t \in Threads :
        (/\ frame[t].pc = "done"
         /\ frame[t].prev # <<>>
         /\ Prev(t).pc = "done"
         /\ SameInputs(t))
        => frame[t].final_context = Prev(t).final_context

\* The second call returned, as the first (which built the index) did, a
\* non-empty list after fusing hits of both searches with the same inputs.
C11_Witness ==
    /\ frame[1].pc = "done"
    /\ calls[1] = 2
    /\ frame[1].prev # <<>>
    /\ Prev(1).pc = "done"
    /\ SameInputs(1)
    /\ frame[1].final_context # <<>>
    /\ frame[1].pinecone_hits # <<>>
    /\ build_count = 1

\* C12: a call fails on the embedding or Pinecone query only after that
\* call was issued twice (one retry).
C12_RetryOnce ==
    \A t \in Threads :
        (frame[t].pc = "failed" /\ frame[t].err = "RetrievalServiceError")
            => frame[t].dense_attempts = 2

\* C13: with an empty corpus file a call ends only by failing with the
\* core's own "nothing indexed" error, before any search.
C13_EmptyCorpusError ==
    \A t \in Threads :
        (file = <<>> /\ frame[t].pc \in {"done", "failed"})
            => /\ frame[t].pc = "failed"
               /\ frame[t].err = "EmptyCorpus"
               /\ frame[t].bm25_hits = <<>>
               /\ frame[t].dense_attempts = 0

\* C14: the returned list is the first min(final_k, n) contents of the
\* reranked list of length n, in its order.
C14_SelectPrefix ==
    \A t \in Threads :
        frame[t].pc = "done" =>
            LET rr == frame[t].reranked_results
                m == IF frame[t].final_k < Len(rr)
                     THEN frame[t].final_k ELSE Len(rr)
            IN  /\ Len(frame[t].final_context) = m
                /\ \A i \in 1..m : frame[t].final_context[i] = rr[i][1]

\* A reranked list of five, of which the default final_k = 3 kept three.
C14_Witness ==
    /\ frame[1].pc = "done"
    /\ frame[1].final_k = 3
    /\ Len(frame[1].reranked_results) = 5
    /\ Len(frame[1].final_context) = 3

\* C15: once the index is built, no step of any later (or the same) call
\* runs the build again or changes corpus or bm25_index.
C15_BuiltOnceKept ==
    [][ (~bm25_index.is_none) =>
            /\ bm25_index' = bm25_index
            /\ corpus' = corpus
            /\ build_count' = build_count ]_vars

\* The third call of a caller has returned and the build ran once.
C15_Witness ==
    /\ calls[1] = 3
    /\ frame[1].pc = "done"
    /\ build_count = 1
    /\ ~bm25_index.is_none

\* C16: the pool is the first min(n, top_k + 5) fused candidates in fused
\* order, only the pool is paired, scored and returned, and with an empty
\* pool the call returns [] without a call of the relevance model.
C16_BoundedPool ==
    \A t \in Threads :
        (\/ frame[t].pc \in {"select", "done"}
         \/ frame[t].pc = "failed" /\ frame[t].err = "RerankServiceError")
        => LET f == frame[t].sorted_fused_results
               m == IF Len(f) < frame[t].top_k + 5
                    THEN Len(f) ELSE frame[t].top_k + 5
               pool == frame[t].top_fused_hits
               ord == frame[t].rerank_order
           IN  IF m = 0
               THEN /\ frame[t].pc = "done"
                    /\ frame[t].rerank_pairs = <<>>
                    /\ frame[t].scores = <<>>
                    /\ frame[t].final_context = <<>>
               ELSE /\ Len(pool) = m
                    /\ \A i \in 1..m : pool[i] = f[i].full_content
                    /\ Len(frame[t].rerank_pairs) = m
                    /\ \A i \in 1..m : frame[t].rerank_pairs[i][2] = pool[i]
                    /\ frame[t].pc # "failed" =>
                           /\ Len(frame[t].scores) = m
                           /\ Len(frame[t].reranked_results) = m
                           /\ \A i \in 1..Len(ord) : ord[i] \in 1..m
                           /\ \A i \in 1..Len(frame[t].final_context) :
                                  frame[t].final_context[i] = pool[ord[i]]

\* Fusion gave twelve candidates with top_k = 6, eleven were reranked and
\* the call returned.
C16_Witness ==
    /\ frame[1].pc = "done"
    /\ frame[1].top_k = 6
    /\ Len(frame[1].sorted_fused_results) = 12
    /\ Len(frame[1].top_fused_hits) = 11
    /\ frame[1].final_context # <<>>

\* The steps of one call from one position to the next.
StageSteps ==
    { <<"idle", "check">>, <<"check", "build_load">>, <<"check", "rewrite">>,
      <<"build_load", "build_index">>, <<"build_index", "rewrite">>,
      <<"build_index", "failed">>, <<"rewrite", "lexical">>,
      <<"lexical", "dense">>, <<"dense", "fuse">>, <<"dense", "failed">>,
      <<"fuse", "rerank">>, <<"rerank", "select">>, <<"rerank", "done">>,
      <<"rerank", "failed">>, <<"select", "done">>, <<"done", "idle">>,
      <<"failed", "idle">> }

\* C17: a call goes rewrite, BM25 search, Pinecone search, fusion, rerank,
\* selection, fusion only after both searches ended; the BM25 query and the
\* embedded text come from the rewritten question, every pair given to the
\* relevance model holds the original question.
C17_StageOrder ==
    /\ [][ \A t \in Threads :
              frame'[t].pc # frame[t].pc
                  => <<frame[t].pc, frame'[t].pc>> \in StageSteps ]_vars
    /\ [] \A t \in Threads :
            /\ LexicalDone(t) =>
                   frame[t].tokenized_query
                       = simple_tokenizer(frame[t].rewritten_question)
            /\ DenseIssued(t) =>
                   /\ frame[t].embed_input = frame[t].rewritten_question
                   /\ frame[t].dense_attempts >= 1
            /\ frame[t].pc \in {"fuse", "rerank", "select", "done"} =>
                   /\ frame[t].gen_called
                   /\ Len(frame[t].bm25_scores) = Len(corpus)
                   /\ frame[t].dense_attempts >= 1
            /\ \A i \in 1..Len(frame[t].rerank_pairs) :
                   frame[t].rerank_pairs[i][1] = frame[t].question

\* A call whose question was rewritten to another text has returned after
\* searching with terms and reranking.
C17_Witness ==
    /\ frame[1].pc = "done"
    /\ frame[1].rewritten_question # frame[1].question
    /\ frame[1].tokenized_query # <<>>
    /\ frame[1].pinecone_hits # <<>>
    /\ frame[1].rerank_pairs # <<>>

====
